---- MODULE Spec2Model ----
(***************************************************************************)
(* Model of the two stages of weasto04/RavensWinProbability:               *)
(*   build_db.py        the loader: CSV -> SQLite table with a row_id      *)
(*   extract_winprob.py the extractor: table -> flat CSV and nested JSON   *)
(* The two stages share nothing at run time but the persisted store, so    *)
(* each has its own specification (LoaderSpec, Spec) over the module's     *)
(* variables.                                                              *)
(***************************************************************************)
EXTENDS Integers, Sequences, FiniteSets, TLC

VARIABLES
    tableExists,  \* build_db: the destination table exists in the store
    tablePk,      \* build_db: row_id is declared INTEGER PRIMARY KEY on it
    table,        \* build_db: the table's rows, in rowid order
    foreignIds,   \* build_db: some run so far loaded a source that had its own row_id column
    lastRun,      \* build_db: arguments and outcome of the last run of main
    dbExists,     \* extract_winprob: the store file exists
    store,        \* extract_winprob: the play records of table ravens_2024
    status,       \* extract_winprob: how the last run of main ended ("none": no run yet)
    csv,          \* extract_winprob: ravens_wp.csv as the last run wrote it (Null: not written)
    games_out,    \* extract_winprob: what derive_game_results returned in the last run
    json          \* extract_winprob: ravens_wp.json as the last run wrote it (Null: not written)

loaderVars == <<tableExists, tablePk, table, foreignIds, lastRun>>

extractVars == <<dbExists, store, status, csv, games_out, json>>

vars == <<tableExists, tablePk, table, foreignIds, lastRun,
          dbExists, store, status, csv, games_out, json>>

(***************************************************************************)
(* Bounds                                                                  *)
(***************************************************************************)
MaxSrcRows == 2      \* rows of one source CSV
MaxTableRows == 3    \* rows the destination table may grow to by appends

Data == {"a", "b"}   \* payload of a source row (its other columns)

Range(s) == {s[i] : i \in DOMAIN s}

\* A nullable value (SQL NULL, Python None, a file not written): <<>> or <<v>>.
Null == <<>>
Some(v) == <<v>>
Val(x) == x[1]

SeqsUpTo(S, n) == UNION {[1..k -> S] : k \in 0..n}

IsDistinct(s) == \A i, j \in DOMAIN s : i # j => s[i] # s[j]

(***************************************************************************)
(* build_db.py                                                             *)
(***************************************************************************)

\* A data frame as load_csv returns it: whether it has a row_id column, that
\* column's values (empty when absent), and the rows' other columns.
NoIdFrames == {[has_row_id |-> FALSE, ids |-> <<>>, data |-> d] : d \in SeqsUpTo(Data, MaxSrcRows)}

\* Sources that bring their own row_id column (values distinct within a source).
OwnIdFrames ==
    {[has_row_id |-> TRUE, ids |-> <<2>>, data |-> <<"a">>],
     [has_row_id |-> TRUE, ids |-> <<3, 1>>, data |-> <<"a", "b">>]}

Frames == NoIdFrames \cup OwnIdFrames

IfExistsChoices == {"fail", "replace", "append"}

\* A mutant of add_row_id: numbers the rows from 0 (range(len(df))).
add_row_id_zero_based(df) ==
    IF df.has_row_id THEN df
    ELSE [has_row_id |-> TRUE,
          ids |-> [i \in 1..Len(df.data) |-> i - 1],
          data |-> df.data]

add_row_id(df) ==
    IF df.has_row_id THEN df
    ELSE [has_row_id |-> TRUE,
          ids |-> [i \in 1..Len(df.data) |-> i],
          data |-> df.data]

\* The rows of a frame that has a row_id column, as table rows.
FrameRows(df) == [i \in 1..Len(df.data) |-> [row_id |-> df.ids[i], data |-> df.data[i]]]

RowIds(t) == {t[i].row_id : i \in DOMAIN t}

\* Rows in ascending row_id order (row_id values distinct): the scan order of
\* a table whose row_id is INTEGER PRIMARY KEY, i.e. the rowid.
RECURSIVE SortByRowId(_)
SortByRowId(t) ==
    IF t = <<>> THEN <<>>
    ELSE LET m == CHOOSE i \in DOMAIN t : \A j \in DOMAIN t : t[i].row_id <= t[j].row_id
             rest == [k \in 1..(Len(t) - 1) |-> IF k < m THEN t[k] ELSE t[k + 1]]
         IN  <<t[m]>> \o SortByRowId(rest)

\* The INSERT of df.to_sql into an existing table: a UNIQUE violation on a
\* primary-key table raises sqlite3.IntegrityError and the insert is rolled back.
InsertFails(t, pk, newRows) ==
    pk /\ (~IsDistinct([i \in DOMAIN newRows |-> newRows[i].row_id])
           \/ RowIds(t) \cap RowIds(newRows) # {})

InsertRows(t, pk, newRows) == IF pk THEN SortByRowId(t \o newRows) ELSE t \o newRows

\* The if_exists argument write_sqlite passes to df.to_sql.
to_sql_mode(if_exists) == IF if_exists = "append" THEN "append" ELSE "replace"

\* write_sqlite(df, db, table, if_exists): the store after the call and its
\* outcome. st = [exists, pk, rows]; the result adds status and count.
write_sqlite(st, df, if_exists) ==
    LET newRows == FrameRows(df)
        \* DROP TABLE IF EXISTS, when replacing
        s1 == IF if_exists = "replace"
              THEN [exists |-> FALSE, pk |-> FALSE, rows |-> <<>>]
              ELSE st
        mode == to_sql_mode(if_exists)
    IN  IF mode = "fail" /\ s1.exists
        THEN \* pandas raises ValueError: table already exists
             [exists |-> s1.exists, pk |-> s1.pk, rows |-> s1.rows,
              status |-> "error", count |-> 0]
        ELSE IF mode = "append" /\ s1.exists /\ InsertFails(s1.rows, s1.pk, newRows)
        THEN \* IntegrityError: rolled back, the table is as before
             [exists |-> s1.exists, pk |-> s1.pk, rows |-> s1.rows,
              status |-> "error", count |-> 0]
        ELSE LET \* df.to_sql: create the table when absent (or replaced), insert
                 s2 == IF mode = "append" /\ s1.exists
                       THEN [exists |-> TRUE, pk |-> s1.pk,
                             rows |-> InsertRows(s1.rows, s1.pk, newRows)]
                       ELSE [exists |-> TRUE, pk |-> FALSE, rows |-> newRows]
                 \* the rebuild with row_id INTEGER PRIMARY KEY
                 s3 == IF if_exists # "append" /\ ~s2.pk
                       THEN [exists |-> TRUE, pk |-> TRUE, rows |-> SortByRowId(s2.rows)]
                       ELSE s2
             IN  [exists |-> TRUE, pk |-> s3.pk, rows |-> s3.rows,
                  status |-> "ok", count |-> Len(s3.rows)]

NoRun == [if_exists |-> "none", df |-> [has_row_id |-> FALSE, ids |-> <<>>, data |-> <<>>],
          priorExists |-> FALSE, priorPk |-> FALSE, prior |-> <<>>,
          status |-> "none", count |-> 0]

\* The extractor's part of the state, before any run of it.
ExtractIdle ==
    /\ status = "none"
    /\ csv = Null
    /\ games_out = <<>>
    /\ json = Null

LoaderInit ==
    /\ tableExists = FALSE
    /\ tablePk = FALSE
    /\ table = <<>>
    /\ foreignIds = FALSE
    /\ lastRun = NoRun
    /\ dbExists = FALSE
    /\ store = <<>>
    /\ ExtractIdle

\* build_db.main with an existing CSV: load_csv, add_row_id, write_sqlite, print.
LoaderMain(src, if_exists) ==
    /\ if_exists = "append" => Len(table) + Len(src.data) <= MaxTableRows
    /\ LET df == add_row_id(src)
           r == write_sqlite([exists |-> tableExists, pk |-> tablePk, rows |-> table],
                             df, if_exists)
       IN  /\ tableExists' = r.exists
           /\ tablePk' = r.pk
           /\ table' = r.rows
           /\ foreignIds' = (foreignIds \/ src.has_row_id)
           /\ lastRun' = [if_exists |-> if_exists, df |-> src,
                          priorExists |-> tableExists, priorPk |-> tablePk, prior |-> table,
                          status |-> r.status, count |-> r.count]
           /\ UNCHANGED extractVars

\* build_db.main with a missing CSV: load_csv raises before the store is touched.
LoaderMissingCsv(if_exists) ==
    /\ lastRun' = [if_exists |-> if_exists, df |-> NoRun.df,
                   priorExists |-> tableExists, priorPk |-> tablePk, prior |-> table,
                   status |-> "csv_missing", count |-> 0]
    /\ UNCHANGED <<tableExists, tablePk, table, foreignIds>>
    /\ UNCHANGED extractVars

LoaderNext ==
    \/ \E src \in Frames, p \in IfExistsChoices : LoaderMain(src, p)
    \/ \E p \in IfExistsChoices : LoaderMissingCsv(p)

LoaderSpec == LoaderInit /\ [][LoaderNext]_vars

(***************************************************************************)
(* extract_winprob.py                                                      *)
(* Win probabilities are counted in quarters (Half = 0.5, One = 1.0),      *)
(* minutes in thousandths (ROUND(.., 3)), amplitude in millionths          *)
(* (round(.., 6)).                                                         *)
(***************************************************************************)
MaxRows == 3         \* rows of table ravens_2024

Half == 2            \* 0.5, the side threshold of lead_changes
One == 2 * Half      \* 1.0

RegulationSeconds == 3600

\* The games of the store: game_id -> <<home_team, away_team>>.
GameTeams == <<<<"BAL", "KC">>, <<"KC", "BAL">>, <<"KC", "PIT">>>>

SecondsChoices == <<0, 900>>           \* game_seconds_remaining
HomeWpChoices == <<Null, <<1>>, <<2>>, <<5>>>>  \* home_wp: NULL, 0.25, 0.5, 1.25
ScoreChoices == <<<<1, 0>>, <<0, 0>>>>  \* total_home_score, total_away_score: home leads, tie

TableRow(g, secs, w, hwp, sc) ==
    [game_id |-> g, home_team |-> GameTeams[g][1], away_team |-> GameTeams[g][2],
     game_seconds_remaining |-> secs, wp |-> w,
     home_wp |-> hwp, away_wp |-> IF hwp = Null THEN Null ELSE Some(One - Val(hwp)),
     total_home_score |-> sc[1], total_away_score |-> sc[2]]

\* The play records the store is drawn from, numbered: the plays of the two
\* Ravens games that pass the query's filter, then one row failing each of
\* its three conditions.
NEligible == 2 * Len(SecondsChoices) * Len(HomeWpChoices) * Len(ScoreChoices)

RowChoice(k) ==
    IF k < NEligible
    THEN LET g == (k % 2) + 1
             k1 == k \div 2
             secs == SecondsChoices[(k1 % Len(SecondsChoices)) + 1]
             k2 == k1 \div Len(SecondsChoices)
             hwp == HomeWpChoices[(k2 % Len(HomeWpChoices)) + 1]
             k3 == k2 \div Len(HomeWpChoices)
             sc == ScoreChoices[k3 + 1]
         IN  TableRow(g, Some(secs), Some(Half), hwp, sc)
    ELSE IF k = NEligible THEN TableRow(3, Some(0), Some(Half), Some(1), <<1, 0>>)
    ELSE IF k = NEligible + 1 THEN TableRow(1, Some(0), Null, Some(1), <<1, 0>>)
    ELSE TableRow(2, Null, Some(Half), Some(1), <<1, 0>>)

NChoices == NEligible + 3

\* The number of a play record among the choices.
RowNumber(r) == CHOOSE k \in 0..(NChoices - 1) : RowChoice(k) = r

\* The least number the next record of table t may have.
NextFrom(t) == IF t = <<>> THEN 0 ELSE RowNumber(t[Len(t)])

\* ROUND((3600 - game_seconds_remaining) / 60.0, 3), in thousandths of a minute.
MinutesElapsed(secs) == ((RegulationSeconds - secs) * 100 + 3) \div 6

\* The WHERE clause of the base CTE.
Eligible(r) ==
    /\ (r.home_team = "BAL" \/ r.away_team = "BAL")
    /\ r.wp # Null
    /\ r.game_seconds_remaining # Null

\* The enriched CTE and the final SELECT: one team-relative play.
Project(r) ==
    [game_id |-> r.game_id,
     minutes_elapsed |-> MinutesElapsed(Val(r.game_seconds_remaining)),
     win_prob |-> IF r.home_team = "BAL" THEN r.home_wp ELSE r.away_wp,
     ravens_score |-> IF r.home_team = "BAL" THEN r.total_home_score ELSE r.total_away_score,
     opponent_score |-> IF r.home_team = "BAL" THEN r.total_away_score ELSE r.total_home_score]

\* ORDER BY game_id, minutes_elapsed
OrderKeyLeq(a, b) ==
    \/ a.game_id < b.game_id
    \/ (a.game_id = b.game_id /\ a.minutes_elapsed <= b.minutes_elapsed)

\* Every sequence of the plays ps[i], i \in I, that ORDER BY allows: rows that
\* agree on game_id and minutes_elapsed come in an order SQL leaves open.
RECURSIVE Orderings(_, _)
Orderings(ps, I) ==
    IF I = {} THEN {<<>>}
    ELSE UNION {{<<ps[i]>> \o s : s \in Orderings(ps, I \ {i})} :
                i \in {i \in I : \A j \in I : OrderKeyLeq(ps[i], ps[j])}}

\* fetch_rows(conn): the results the query can return on table t.
fetch_rows(t) ==
    LET elig == SelectSeq(t, Eligible)
        ps == [i \in DOMAIN elig |-> Project(elig[i])]
    IN  Orderings(ps, DOMAIN ps)

\* write_csv(rows): the rows as fetched, one CSV row each.
write_csv(rs) == rs

\* by_game's keys, in insertion (first seen) order.
RECURSIVE GameOrder(_)
GameOrder(rs) ==
    IF rs = <<>> THEN <<>>
    ELSE LET init == GameOrder(SubSeq(rs, 1, Len(rs) - 1))
             g == rs[Len(rs)].game_id
         IN  IF g \in Range(init) THEN init ELSE Append(init, g)

PlaysOf(rs, gid) == SelectSeq(rs, LAMBDA r : r.game_id = gid)

\* sorted(plays, key=minutes_elapsed): a stable sort.
RECURSIVE SortedByMinutes(_)
SortedByMinutes(ps) ==
    IF ps = <<>> THEN <<>>
    ELSE LET init == SortedByMinutes(SubSeq(ps, 1, Len(ps) - 1))
             x == ps[Len(ps)]
             keep == SelectSeq(init, LAMBDA p : p.minutes_elapsed <= x.minutes_elapsed)
             move == SelectSeq(init, LAMBDA p : p.minutes_elapsed > x.minutes_elapsed)
         IN  keep \o <<x>> \o move

\* A mutant of game_result: a tie counts as a win.
game_result_tie_wins(ravens_score, opp_score) ==
    IF ravens_score >= opp_score THEN "W" ELSE "L"

\* result = 'W' if ravens_score > opp_score else 'L'
game_result(ravens_score, opp_score) ==
    IF ravens_score > opp_score THEN "W" ELSE "L"

SeqMax(s) == CHOOSE x \in Range(s) : \A y \in Range(s) : y <= x
SeqMin(s) == CHOOSE x \in Range(s) : \A y \in Range(s) : x <= y

\* round(max_wp - min_wp, 6), in millionths.
amplitude_of(wps) ==
    IF wps = <<>> THEN 0 ELSE ((SeqMax(wps) - SeqMin(wps)) * 1000000) \div One

\* A mutant of lead_changes_of: the loop starts at 0, so wps[-1] is compared with wps[0].
lead_changes_from_zero(wps) ==
    Cardinality({i \in 1..Len(wps) :
        LET prev == IF i = 1 THEN wps[Len(wps)] ELSE wps[i - 1]
        IN  (prev >= Half) # (wps[i] >= Half)})

\* for i in range(1, len(wps)): count the pairs whose sides differ.
lead_changes_of(wps) ==
    Cardinality({i \in 2..Len(wps) : (wps[i - 1] >= Half) # (wps[i] >= Half)})

\* float(p['win_prob']) raises TypeError on None.
FloatFails(ps) == \E i \in DOMAIN ps : ps[i].win_prob = Null

\* One iteration of derive_game_results' loop over by_game.
derive_game(gid, plays) ==
    LET sorted == SortedByMinutes(plays)
        last == sorted[Len(sorted)]
        result == game_result(last.ravens_score, last.opponent_score)
        final_wp == IF result = "W" THEN 1 ELSE 0
        snapped == [sorted EXCEPT ![Len(sorted)].win_prob = Some(final_wp * One)]
        wps == [i \in DOMAIN snapped |-> Val(snapped[i].win_prob)]
    IN  IF FloatFails(snapped)
        THEN [raised |-> TRUE]
        ELSE [raised |-> FALSE, gid |-> gid, plays_sorted |-> snapped,
              result |-> result, final_wp |-> final_wp,
              ravens_score |-> last.ravens_score, opp_score |-> last.opponent_score,
              metrics |-> [lead_changes |-> lead_changes_of(wps),
                           amplitude |-> amplitude_of(wps)]]

\* derive_game_results(rows): Null when an iteration raises, else games_out.
derive_game_results(rs) ==
    LET order == GameOrder(rs)
        gs == [k \in DOMAIN order |-> derive_game(order[k], PlaysOf(rs, order[k]))]
    IN  IF \E k \in DOMAIN gs : gs[k].raised THEN Null ELSE Some(gs)

\* A mutant of tuple_greater: >= lets a later game with an equal pair take over.
tuple_greater_or_equal(a, b) ==
    a[1] > b[1] \/ (a[1] = b[1] /\ a[2] >= b[2])

\* key > best_tuple on Python tuples (lead_changes, amplitude).
tuple_greater(a, b) ==
    a[1] > b[1] \/ (a[1] = b[1] /\ a[2] > b[2])

\* write_json's first loop: best after the first k games; best_tuple starts (-1, -1.0).
RECURSIVE best_after(_, _)
best_after(gs, k) ==
    IF k = 0 THEN [gid |-> Null, tuple |-> <<-1, -1000000>>]
    ELSE LET b == best_after(gs, k - 1)
             key == <<gs[k].metrics.lead_changes, gs[k].metrics.amplitude>>
         IN  IF gs[k].plays_sorted # <<>> /\ tuple_greater(key, b.tuple)
             THEN [gid |-> Some(gs[k].gid), tuple |-> key]
             ELSE b

\* One entry of payload['games'] (write_json's second loop).
json_game(g, best_gid) ==
    [game_id |-> g.gid,
     result |-> g.result,
     final_wp |-> g.final_wp,
     points |-> [ravens |-> g.ravens_score, opponent |-> g.opp_score],
     metrics |-> g.metrics,
     highlight |-> (Some(g.gid) = best_gid),
     plays |-> [i \in DOMAIN g.plays_sorted |->
                  [t |-> g.plays_sorted[i].minutes_elapsed,
                   wp |-> Val(g.plays_sorted[i].win_prob)]]]

\* write_json(games_out): the payload dumped to ravens_wp.json.
write_json(gs) ==
    LET best_gid == best_after(gs, Len(gs)).gid
    IN  [games |-> [k \in DOMAIN gs |-> json_game(gs[k], best_gid)],
         most_exciting_game_id |-> best_gid]

Init ==
    /\ tableExists = FALSE
    /\ tablePk = FALSE
    /\ table = <<>>
    /\ foreignIds = FALSE
    /\ lastRun = NoRun
    /\ dbExists \in BOOLEAN
    /\ store = <<>>
    /\ ExtractIdle

\* The store gains a play record before extraction (a loader run put it there).
\* Records arrive in the order of their numbers: the query's result is
\* modelled for every order ORDER BY allows, so the table's own order adds
\* nothing.
InsertPlay(k) ==
    /\ dbExists
    /\ status = "none"
    /\ Len(store) < MaxRows
    /\ store' = Append(store, RowChoice(k))
    /\ UNCHANGED <<dbExists, status, csv, games_out, json>>
    /\ UNCHANGED loaderVars

\* main(): the store is missing.
MainMissingDb ==
    /\ ~dbExists
    /\ status' = "db_missing"
    /\ csv' = Null
    /\ games_out' = <<>>
    /\ json' = Null
    /\ UNCHANGED <<dbExists, store>>
    /\ UNCHANGED loaderVars

\* main(): fetch_rows, the empty check, write_csv, derive_game_results, write_json.
Main ==
    /\ dbExists
    /\ \E rs \in fetch_rows(store) :
         IF rs = <<>>
         THEN \* RuntimeError: no rows returned
              /\ status' = "no_rows"
              /\ csv' = Null
              /\ games_out' = <<>>
              /\ json' = Null
         ELSE \E g \in {derive_game_results(rs)} :
              /\ csv' = Some(write_csv(rs))
              /\ IF g = Null
                 THEN \* derive_game_results raised: main ends there
                      /\ status' = "derive_error"
                      /\ games_out' = <<>>
                      /\ json' = Null
                 ELSE /\ status' = "ok"
                      /\ games_out' = Val(g)
                      /\ json' = Some(write_json(games_out'))
    /\ UNCHANGED <<dbExists, store>>
    /\ UNCHANGED loaderVars

\* The store is populated, then the extractor runs once.
Next ==
    \/ \E k \in NextFrom(store)..(NChoices - 1) : InsertPlay(k)
    \/ (status = "none" /\ MainMissingDb)
    \/ (status = "none" /\ Main)

Spec == Init /\ [][Next]_vars

\* The same, and the extractor may run again on the unchanged store.
RerunNext ==
    \/ Next
    \/ (status # "none" /\ MainMissingDb)
    \/ (status # "none" /\ Main)

RerunSpec == Init /\ [][RerunNext]_vars

(***************************************************************************)
(* write_json on its own: games_out is built one derive_game_results       *)
(* iteration at a time from chosen games, then write_json runs on it.      *)
(***************************************************************************)
MaxGames == 3        \* games in games_out

\* The games to aggregate: the plays' win probabilities as the query returns
\* them (the last is overwritten) and whether the Ravens lead on the last play.
TraceChoices ==
    <<<< <<1>>, TRUE >>,          \* 1.0              -> (0, 0.0)
      << <<1, 1>>, FALSE >>,      \* 0.25 0.0         -> (0, 0.25)
      << <<2, 1>>, FALSE >>,      \* 0.5  0.0         -> (1, 0.5)
      << <<2, 1>>, TRUE >>,       \* 0.5  1.0         -> (0, 0.5)
      << <<3, 1, 1>>, TRUE >>,    \* 0.75 0.25 1.0    -> (2, 0.75)
      << <<0, 1>>, TRUE >>,       \* 0.0  1.0         -> (1, 1.0)
      << <<1, 3, 3>>, TRUE >> >>  \* 0.25 0.75 1.0    -> (1, 0.75)

\* The team-relative plays of game gid with trace c, one per minute.
TracePlays(gid, c) ==
    [i \in DOMAIN c[1] |->
        [game_id |-> gid,
         minutes_elapsed |-> i * 1000,
         win_prob |-> Some(c[1][i]),
         ravens_score |-> IF c[2] THEN 1 ELSE 0,
         opponent_score |-> 0]]

JsonInit ==
    /\ tableExists = FALSE
    /\ tablePk = FALSE
    /\ table = <<>>
    /\ foreignIds = FALSE
    /\ lastRun = NoRun
    /\ dbExists = TRUE
    /\ store = <<>>
    /\ ExtractIdle

\* One iteration of derive_game_results' loop: games_out.append(...).
AggregateGame(c) ==
    /\ json = Null
    /\ Len(games_out) < MaxGames
    /\ games_out' = Append(games_out, derive_game(Len(games_out) + 1,
                                                  TracePlays(Len(games_out) + 1, c)))
    /\ UNCHANGED <<dbExists, store, status, csv, json>>
    /\ UNCHANGED loaderVars

\* write_json(games_out)
WriteJson ==
    /\ json = Null
    /\ games_out # <<>>
    /\ json' = Some(write_json(games_out))
    /\ status' = "ok"
    /\ UNCHANGED <<dbExists, store, csv, games_out>>
    /\ UNCHANGED loaderVars

JsonNext ==
    \/ \E n \in DOMAIN TraceChoices : AggregateGame(TraceChoices[n])
    \/ WriteJson

JsonSpec == JsonInit /\ [][JsonNext]_vars

(***************************************************************************)
(* Properties of the extractor                                             *)
(***************************************************************************)

RECURSIVE SumLens(_)
SumLens(ss) == IF ss = <<>> THEN 0 ELSE Len(ss[1]) + SumLens(Tail(ss))

\* C1: each game derive_game_results produces has result 'W' exactly when the
\* Ravens' score is strictly greater than the opponent's on the game's last
\* play in minutes_elapsed order, final_wp 1 for 'W' and 0 for 'L', the last
\* play's win probability overwritten with that terminal value, and every
\* other play as the query returned it.
C1_TerminalSnap ==
    status = "ok" =>
        \A k \in DOMAIN games_out :
            LET g == games_out[k]
                P == PlaysOf(Val(csv), g.gid)
                n == Len(P)
            IN  /\ n >= 1
                /\ Len(g.plays_sorted) = n
                /\ \A i \in 1..n : P[i].minutes_elapsed <= P[n].minutes_elapsed
                /\ g.result \in {"W", "L"}
                /\ (g.result = "W") <=> (P[n].ravens_score > P[n].opponent_score)
                /\ g.final_wp = (IF g.result = "W" THEN 1 ELSE 0)
                /\ g.plays_sorted[n] = [P[n] EXCEPT !.win_prob = Some(g.final_wp * One)]
                /\ \A i \in 1..(n - 1) : g.plays_sorted[i] = P[i]

\* A game of two plays or more that ends in a tie, whose last play came with a
\* win probability other than 0.0: the result is 'L' and the value is overwritten.
C1_Witness ==
    /\ status = "ok"
    /\ \E k \in DOMAIN games_out :
          LET g == games_out[k]
              P == PlaysOf(Val(csv), g.gid)
          IN  /\ Len(P) >= 2
              /\ P[Len(P)].ravens_score = P[Len(P)].opponent_score
              /\ P[Len(P)].win_prob # Null
              /\ P[Len(P)].win_prob # Some(0)
              /\ g.result = "L"
              /\ g.plays_sorted[Len(P)].win_prob = Some(0)

PairOf(jg) == <<jg.metrics.lead_changes, jg.metrics.amplitude>>

PairLeq(a, b) == a[1] < b[1] \/ (a[1] = b[1] /\ a[2] <= b[2])

\* C2: most_exciting_game_id is the game whose (lead_changes, amplitude) is the
\* lexicographic maximum, the first in aggregation order among the games with
\* that pair, and highlight is true for that game alone.
C2_MostExciting ==
    json # Null =>
        LET gs == Val(json).games
        IN  \E k \in DOMAIN gs :
                /\ Val(json).most_exciting_game_id = Some(gs[k].game_id)
                /\ \A j \in DOMAIN gs : PairLeq(PairOf(gs[j]), PairOf(gs[k]))
                /\ \A j \in DOMAIN gs : PairOf(gs[j]) = PairOf(gs[k]) => k <= j
                /\ \A j \in DOMAIN gs : gs[j].highlight <=> (j = k)

\* Three games: the first has fewer lead changes and a larger amplitude than
\* the two others, which share the maximal pair; the second is selected.
C2_Witness ==
    /\ json # Null
    /\ LET gs == Val(json).games
       IN  /\ Len(gs) = 3
           /\ PairOf(gs[2]) = PairOf(gs[3])
           /\ PairOf(gs[1])[1] < PairOf(gs[2])[1]
           /\ PairOf(gs[1])[2] > PairOf(gs[2])[2]
           /\ Val(json).most_exciting_game_id = Some(gs[2].game_id)
           /\ gs[2].highlight /\ ~gs[1].highlight /\ ~gs[3].highlight

GameIdsOf(s) == {s[i].game_id : i \in DOMAIN s}

\* C3: after a successful run the CSV and the JSON hold the same games, as
\* many CSV rows as JSON plays, and the same win probability for every play,
\* each game's last play included.
C3_CsvJsonConsistent ==
    status = "ok" =>
        LET gs == Val(json).games
            cs == Val(csv)
        IN  /\ GameIdsOf(cs) = GameIdsOf(gs)
            /\ Len(cs) = SumLens([k \in DOMAIN gs |-> gs[k].plays])
            /\ \A k \in DOMAIN gs :
                  LET P == PlaysOf(cs, gs[k].game_id)
                  IN  /\ Len(P) = Len(gs[k].plays)
                      /\ \A i \in DOMAIN P :
                            /\ P[i].minutes_elapsed = gs[k].plays[i].t
                            /\ P[i].win_prob = Some(gs[k].plays[i].wp)

\* C4: when a run of main has ended, both output files were written by it or
\* neither was.
C4_AllOrNothing ==
    status # "none" => ((csv # Null) <=> (json # Null))

InUnitRange(ps) == \A i \in DOMAIN ps : 0 <= Val(ps[i].win_prob) /\ Val(ps[i].win_prob) <= One

\* C5 as stated: for every game produced from rows the filter lets through,
\* amplitude lies in [0, 1] and 0 <= lead_changes <= play count - 1.
C5_MetricsInRange ==
    \A k \in DOMAIN games_out :
        LET g == games_out[k]
        IN  /\ 0 <= g.metrics.amplitude /\ g.metrics.amplitude <= 1000000
            /\ 0 <= g.metrics.lead_changes
            /\ g.metrics.lead_changes <= Len(g.plays_sorted) - 1

\* C5, amended: for every game produced, 0 <= lead_changes <= play count - 1
\* and amplitude >= 0; amplitude <= 1 when every win probability of the
\* game's plays after the terminal overwrite lies in [0, 1] (the filter does
\* not check the column's range).
C5_MetricsInRangeOfProbabilities ==
    \A k \in DOMAIN games_out :
        LET g == games_out[k]
        IN  /\ 0 <= g.metrics.amplitude
            /\ InUnitRange(g.plays_sorted) => g.metrics.amplitude <= 1000000
            /\ 0 <= g.metrics.lead_changes
            /\ g.metrics.lead_changes <= Len(g.plays_sorted) - 1

\* A game of three plays with probabilities in [0, 1] whose side changes at
\* every play: lead_changes reaches play count - 1.
C5_Witness ==
    /\ status = "ok"
    /\ \E k \in DOMAIN games_out :
          LET g == games_out[k]
          IN  /\ Len(g.plays_sorted) = 3
              /\ InUnitRange(g.plays_sorted)
              /\ g.metrics.lead_changes = 2
              /\ g.metrics.amplitude > 0

\* What C10 compares between two runs.
Summary(j) ==
    [most_exciting_game_id |-> Val(j).most_exciting_game_id,
     games |-> {[game_id |-> Val(j).games[k].game_id,
                 result |-> Val(j).games[k].result,
                 points |-> Val(j).games[k].points] : k \in DOMAIN Val(j).games}]

\* C10: a successful run followed by another on the unchanged store yields the
\* same most_exciting_game_id and the same result and final scores per game,
\* in whatever order the query returns the plays that share minutes_elapsed.
C10_Deterministic ==
    [][(status = "ok" /\ status' = "ok" /\ store' = store)
          => Summary(json') = Summary(json)]_vars

(***************************************************************************)
(* Properties of the loader                                                *)
(***************************************************************************)

RanWith(policy) == lastRun.if_exists = policy /\ lastRun.status # "csv_missing"

\* C6: after a replace load of a source of n rows without a row_id column the
\* table holds exactly those rows, numbered 1..n in source order, and n is
\* the count reported, whatever the table held before.
C6_ReplaceLoad ==
    (RanWith("replace") /\ ~lastRun.df.has_row_id) =>
        LET n == Len(lastRun.df.data)
        IN  /\ lastRun.status = "ok"
            /\ lastRun.count = n
            /\ tableExists
            /\ Len(table) = n
            /\ \A i \in 1..n : table[i] = [row_id |-> i, data |-> lastRun.df.data[i]]

\* A replace load of two rows over a table that held other rows, some of them
\* with equal row_id values.
C6_Witness ==
    /\ RanWith("replace") /\ ~lastRun.df.has_row_id
    /\ Len(lastRun.df.data) = 2
    /\ Len(lastRun.prior) > 2
    /\ ~IsDistinct([i \in DOMAIN lastRun.prior |-> lastRun.prior[i].row_id])
    /\ lastRun.status = "ok"
    /\ Len(table) = 2

\* C7: an append load of n rows onto an existing table of m rows completes and
\* leaves m + n rows, the count it reports.
C7_AppendAdds ==
    (RanWith("append") /\ lastRun.priorExists) =>
        /\ lastRun.status = "ok"
        /\ Len(table) = Len(lastRun.prior) + Len(lastRun.df.data)
        /\ lastRun.count = Len(table)

\* C8: with sources that have no row_id column, the row_id values in the table
\* are pairwise distinct, and an append load leaves the rows already there in
\* place with their row_id.
C8_RowIdsUniqueStable ==
    ~foreignIds =>
        /\ IsDistinct([i \in DOMAIN table |-> table[i].row_id])
        /\ (RanWith("append") /\ Len(lastRun.prior) <= Len(table))
              => SubSeq(table, 1, Len(lastRun.prior)) = lastRun.prior

\* C9: a run with policy fail on an existing table ends in an error and leaves
\* the table's rows as they were.
C9_FailKeepsTable ==
    (lastRun.if_exists = "fail" /\ lastRun.priorExists) =>
        /\ lastRun.status \in {"error", "csv_missing"}
        /\ tableExists
        /\ table = lastRun.prior
        /\ tablePk = lastRun.priorPk

====
